---- MODULE Spec2Model ----
(***************************************************************************)
(* Model of react/src/jsx/ReactJSXElementValidator.js: the DEV-only        *)
(* validating wrappers around the element factory jsxDEV.  One action is   *)
(* one complete synchronous call of jsxWithValidationStatic or             *)
(* jsxWithValidationDynamic; the module-level state is the two warning     *)
(* caches, the misspell flag, the debug frame pointer and the elements     *)
(* the program still holds.  console.error is modelled as a log that       *)
(* records, with each message, the extra stack frame current at that time. *)
(***************************************************************************)
EXTENDS Integers, Sequences, FiniteSets, TLC

VARIABLES
  ReactCurrentOwner,             \* ReactCurrentOwner.current (set by the renderer)
  extraStackFrame,               \* ReactDebugCurrentFrame's extra stack frame
  propTypesMisspellWarningShown, \* module flag, line 43
  ownerHasKeyUseWarning,         \* cache, line 95: set of fingerprints that are true
  didWarnAboutKeySpread,         \* cache, line 294: set of fingerprints that are true
  heap,                          \* the elements the program holds, by identity (index)
  last,                          \* what the most recent factory call did
  keyWarnHistory,                \* history: <<fingerprint, element>> of every missing-key warning
  firstKeyless,                  \* history: <<fingerprint, element>> first keyless unvalidated element seen per fingerprint
  spreadSeen                     \* history: <<componentName, keys>> pairs of earlier calls with an own "key"

vars == <<ReactCurrentOwner, extraStackFrame, propTypesMisspellWarningShown,
          ownerHasKeyUseWarning, didWarnAboutKeySpread, heap, last,
          keyWarnHistory, firstKeyless, spreadSeen>>

(***************************************************************************)
(* Bounds of the model.                                                    *)
(***************************************************************************)
MaxElems == 2      \* elements the program keeps to use as children

(***************************************************************************)
(* JavaScript values.  Every value is a record with a tag t.               *)
(***************************************************************************)
NULL == [t |-> "null"]
UNDEFINED == [t |-> "undefined"]
Str(s) == [t |-> "str", s |-> s]
Num(n) == [t |-> "num", n |-> n]
ElemRef(i) == [t |-> "elem", id |-> i]
Arr(items) == [t |-> "array", items |-> items]
\* an object with an iterator; entries = TRUE when the iterator is node.entries (a Map)
Iter(items, entries) == [t |-> "iterable", items |-> items, entries |-> entries]
ClientRefObj == [t |-> "client_reference"]

\* '' + v for the values that reach a string concatenation here
ToStr(v) == IF v.t = "str" THEN v.s ELSE v.t

\* Array.prototype.join
RECURSIVE Join(_, _)
Join(keys, sep) ==
  IF Len(keys) = 0 THEN ""
  ELSE IF Len(keys) = 1 THEN keys[1]
  ELSE keys[1] \o sep \o Join(Tail(keys), sep)

\* props as JS objects: a sequence of [name, value] in enumeration order
HasOwn(obj, name) == \E i \in 1..Len(obj) : obj[i].name = name
Get(obj, name) ==
  IF HasOwn(obj, name)
  THEN obj[CHOOSE i \in 1..Len(obj) : obj[i].name = name].value
  ELSE UNDEFINED
RECURSIVE ObjectKeys(_)
ObjectKeys(obj) ==
  IF Len(obj) = 0 THEN <<>> ELSE <<obj[1].name>> \o ObjectKeys(Tail(obj))
RECURSIVE FilterNotKey(_)
FilterNotKey(keys) ==
  IF Len(keys) = 0 THEN <<>>
  ELSE IF keys[1] # "key" THEN <<keys[1]>> \o FilterNotKey(Tail(keys))
  ELSE FilterNotKey(Tail(keys))

(***************************************************************************)
(* Element types.  kind is what the value is; name is displayName || name  *)
(* ("" when it has none).                                                  *)
(***************************************************************************)
Type(kind, name, hasPropTypes, propTypes, hasMisspelt, getDefaultProps) ==
  [t |-> "type", kind |-> kind, name |-> name, hasPropTypes |-> hasPropTypes,
   propTypes |-> propTypes, hasMisspelt |-> hasMisspelt,
   getDefaultProps |-> getDefaultProps]
Plain(kind, name) == Type(kind, name, FALSE, <<>>, FALSE, "none")

HostDiv == Plain("string", "div")
FnA == Plain("function", "A")
FnAnon == Plain("function", "")
FnNull == Plain("function", "null")
FnWithPropTypes == Type("function", "P", TRUE, <<"a">>, FALSE, "none")
FnMisspelt == Type("function", "M", FALSE, <<>>, TRUE, "none")
FnLegacy == Type("function", "L", FALSE, <<>>, FALSE, "unapproved")
FwdRefWithPropTypes == Type("forward_ref", "F", TRUE, <<"a">>, FALSE, "none")
MemoWithPropTypes == Type("memo", "", TRUE, <<"b">>, FALSE, "none")
Fragment == Plain("fragment", "")
ClientRefType == Plain("client_reference", "")
TNull == Plain("null", "")
TUndefined == Plain("undefined", "")
TEmptyObject == Plain("empty_object", "")
TArray == Plain("array", "")
TElement == Plain("element", "")
TNumber == Plain("number", "")
TObject == Plain("object", "")

\* typeof type
TypeOf(type) ==
  CASE type.kind = "string" -> "string"
    [] type.kind \in {"function", "client_reference"} -> "function"
    [] type.kind = "fragment" -> "symbol"
    [] type.kind = "undefined" -> "undefined"
    [] type.kind = "number" -> "number"
    [] OTHER -> "object"

\* Object.keys(type).length === 0
HasNoOwnKeys(type) == type.kind = "empty_object"

\* reading a property of null or undefined throws a TypeError
CanReadProperty(type) == type.kind \notin {"null", "undefined"}

\* shared/isValidElementType: string tag, function/class, or a known wrapper
IsValidElementType(type) ==
  type.kind \in {"string", "function", "forward_ref", "memo", "fragment",
                 "client_reference"}

\* shared/getComponentNameFromType: the component's name, or null
GetComponentNameFromType(type) ==
  CASE type.kind = "string" -> Str(type.name)
    [] type.kind \in {"function", "client_reference"} ->
         IF type.name # "" THEN Str(type.name) ELSE NULL
    [] type.kind = "fragment" -> Str("Fragment")
    [] type.kind = "forward_ref" ->
         IF type.name # "" THEN Str(type.name) ELSE Str("ForwardRef")
    [] type.kind = "memo" ->
         IF type.name # "" THEN Str(type.name) ELSE Str("Memo")
    [] OTHER -> NULL

(***************************************************************************)
(* Elements.  jsxDEV (./ReactJSXElement) builds the element: key and ref   *)
(* are taken out of the config, the rest becomes props, the owner is the   *)
(* current owner and _store.validated starts false.                        *)
(***************************************************************************)
RECURSIVE WithoutReserved(_)
WithoutReserved(config) ==
  IF Len(config) = 0 THEN <<>>
  ELSE IF config[1].name \in {"key", "ref", "__self", "__source"}
       THEN WithoutReserved(Tail(config))
       ELSE <<config[1]>> \o WithoutReserved(Tail(config))

JsxDEV(type, config, maybeKey, owner) ==
  [t |-> "element",
   type |-> type,
   key |-> IF Get(config, "key") # UNDEFINED THEN Str(ToStr(Get(config, "key")))
           ELSE IF maybeKey # UNDEFINED THEN Str(ToStr(maybeKey))
           ELSE NULL,
   ref |-> IF Get(config, "ref") # UNDEFINED THEN Get(config, "ref") ELSE NULL,
   props |-> WithoutReserved(config),
   owner |-> owner,
   validated |-> FALSE]

\* describeUnknownElementTypeFrameInDEV(element.type, element._source, owner type)
StackFrameOf(element) ==
  [t |-> "frame", type |-> element.type, key |-> element.key,
   owner |-> element.owner]

(***************************************************************************)
(* The state a call works on: the module state plus the console log and    *)
(* the error flag (threw = an exception escaped the call).                 *)
(***************************************************************************)
CallState ==
  [heap |-> heap, keyCache |-> ownerHasKeyUseWarning,
   spreadCache |-> didWarnAboutKeySpread,
   misspell |-> propTypesMisspellWarningShown,
   frame |-> extraStackFrame, log |-> <<>>, checked |-> <<>>, threw |-> FALSE,
   element |-> NULL]

\* console.error: which message, its %s arguments, the element it is about
\* (0: the element being created, -1: none) and the extra stack frame that is
\* current at the emission
ConsoleError(c, kind, args, elem) ==
  [c EXCEPT !.log = Append(@, [kind |-> kind, args |-> args, elem |-> elem,
                               frame |-> c.frame])]

\* mutant of SetCurrentlyValidatingElement: the frame is not reset for null
SetCurrentlyValidatingElement_NeverClears(c, element) ==
  IF element # NULL
  THEN [c EXCEPT !.frame = StackFrameOf(element)]
  ELSE c

SetCurrentlyValidatingElement(c, element) ==
  IF element # NULL
  THEN [c EXCEPT !.frame = StackFrameOf(element)]
  ELSE [c EXCEPT !.frame = NULL]

IsValidElement(object) == object.t = "elem"

\* (the message's backquotes are written as ' here)
GetDeclarationErrorAddendum ==
  IF ReactCurrentOwner # NULL
  THEN LET name == GetComponentNameFromType(ReactCurrentOwner)
       IN IF name # NULL
          THEN "\n\nCheck the render method of '" \o name.s \o "'."
          ELSE ""
  ELSE ""

GetCurrentComponentErrorInfo(parentType) ==
  LET info == GetDeclarationErrorAddendum
  IN IF info = ""
     THEN LET parentName == parentType.name
          IN IF parentName # ""
             THEN "\n\nCheck the top-level render call using <" \o parentName \o ">."
             ELSE info
     ELSE info

\* mutant of ValidateExplicitKey: the fingerprint is never recorded in the cache
ValidateExplicitKey_NoCacheWrite(c, id, parentType) ==
  LET element == c.heap[id]
  IN IF element.validated \/ element.key # NULL THEN c
     ELSE
       LET c1 == [c EXCEPT !.heap[id].validated = TRUE]
           currentComponentErrorInfo == GetCurrentComponentErrorInfo(parentType)
           c2 == [c1 EXCEPT !.checked = Append(@, <<currentComponentErrorInfo, id>>)]
       IN IF currentComponentErrorInfo \in c2.keyCache THEN c2
          ELSE
            LET c3 == c2
                childOwner ==
                  IF element.owner # NULL /\ element.owner # ReactCurrentOwner
                  THEN " It was passed a child from "
                         \o ToStr(GetComponentNameFromType(element.owner)) \o "."
                  ELSE ""
                c4 == SetCurrentlyValidatingElement(c3, element)
                c5 == ConsoleError(c4, "key", <<currentComponentErrorInfo, childOwner>>, id)
            IN SetCurrentlyValidatingElement(c5, NULL)

\* mutant of ValidateExplicitKey: an element already validated is checked again
ValidateExplicitKey_IgnoresValidated(c, id, parentType) ==
  LET element == c.heap[id]
  IN IF element.key # NULL THEN c
     ELSE
       LET c1 == [c EXCEPT !.heap[id].validated = TRUE]
           currentComponentErrorInfo == GetCurrentComponentErrorInfo(parentType)
           c2 == [c1 EXCEPT !.checked = Append(@, <<currentComponentErrorInfo, id>>)]
       IN IF currentComponentErrorInfo \in c2.keyCache THEN c2
          ELSE
            LET c3 == [c2 EXCEPT !.keyCache = @ \cup {currentComponentErrorInfo}]
                childOwner ==
                  IF element.owner # NULL /\ element.owner # ReactCurrentOwner
                  THEN " It was passed a child from "
                         \o ToStr(GetComponentNameFromType(element.owner)) \o "."
                  ELSE ""
                c4 == SetCurrentlyValidatingElement(c3, element)
                c5 == ConsoleError(c4, "key", <<currentComponentErrorInfo, childOwner>>, id)
            IN SetCurrentlyValidatingElement(c5, NULL)

ValidateExplicitKey(c, id, parentType) ==
  LET element == c.heap[id]
  IN IF element.validated \/ element.key # NULL THEN c
     ELSE
       LET c1 == [c EXCEPT !.heap[id].validated = TRUE]
           currentComponentErrorInfo == GetCurrentComponentErrorInfo(parentType)
           c2 == [c1 EXCEPT !.checked = Append(@, <<currentComponentErrorInfo, id>>)]
       IN IF currentComponentErrorInfo \in c2.keyCache THEN c2
          ELSE
            LET c3 == [c2 EXCEPT !.keyCache = @ \cup {currentComponentErrorInfo}]
                childOwner ==
                  IF element.owner # NULL /\ element.owner # ReactCurrentOwner
                  THEN " It was passed a child from "
                         \o ToStr(GetComponentNameFromType(element.owner)) \o "."
                  ELSE ""
                c4 == SetCurrentlyValidatingElement(c3, element)
                c5 == ConsoleError(c4, "key", <<currentComponentErrorInfo, childOwner>>, id)
            IN SetCurrentlyValidatingElement(c5, NULL)

\* the loops of validateChildKeys over an array or an iterator
RECURSIVE ValidateEach(_, _, _)
ValidateEach(c, items, parentType) ==
  IF Len(items) = 0 THEN c
  ELSE LET child == items[1]
           c1 == IF IsValidElement(child)
                 THEN ValidateExplicitKey(c, child.id, parentType)
                 ELSE c
       IN ValidateEach(c1, Tail(items), parentType)

\* mutant of ValidateChildKeys: a single element child is not marked
ValidateChildKeys_SkipsSingle(c, node, parentType) ==
  IF node.t \notin {"array", "elem", "iterable", "client_reference", "object"}
  THEN c
  ELSE IF node.t = "client_reference" THEN c
  ELSE IF node.t = "array" THEN ValidateEach(c, node.items, parentType)
  ELSE IF IsValidElement(node)
       THEN c
  ELSE IF node.t = "iterable" /\ ~node.entries
       THEN ValidateEach(c, node.items, parentType)
  ELSE c

ValidateChildKeys(c, node, parentType) ==
  IF node.t \notin {"array", "elem", "iterable", "client_reference", "object"}
  THEN c
  ELSE IF node.t = "client_reference" THEN c
  ELSE IF node.t = "array" THEN ValidateEach(c, node.items, parentType)
  ELSE IF IsValidElement(node)
       THEN [c EXCEPT !.heap[node.id].validated = TRUE]
  ELSE IF node.t = "iterable" /\ ~node.entries
       THEN ValidateEach(c, node.items, parentType)
  ELSE c

(***************************************************************************)
(* shared/checkPropTypes: run each declared validator on the props and     *)
(* report a failure as a warning.  The validators here accept a missing    *)
(* prop and a string, and reject every other value.                        *)
(***************************************************************************)
PropTypeRejects(value) == value.t \notin {"undefined", "str"}

RECURSIVE CheckPropTypes(_, _, _, _)
CheckPropTypes(c, propTypes, props, name) ==
  IF Len(propTypes) = 0 THEN c
  ELSE LET c1 == IF PropTypeRejects(Get(props, propTypes[1]))
                 THEN ConsoleError(c, "prop-types", <<propTypes[1], ToStr(name)>>, 0)
                 ELSE c
       IN CheckPropTypes(c1, Tail(propTypes), props, name)

\* a TypeError escapes the call
Throw(c) == [c EXCEPT !.threw = TRUE]

\* mutant of ValidatePropTypes: the type is read without the null/undefined check
ValidatePropTypes_NoNullGuard(c, element) ==
  LET type == element.type
  IN IF TypeOf(type) = "string" THEN c
     ELSE IF ~CanReadProperty(type) THEN Throw(c)
     ELSE IF type.kind = "client_reference" THEN c
     ELSE IF ~(TypeOf(type) = "function"
               \/ (TypeOf(type) = "object"
                   /\ type.kind \in {"forward_ref", "memo"}))
          THEN c
     ELSE
       LET c1 ==
             IF type.hasPropTypes
             THEN CheckPropTypes(c, type.propTypes, element.props,
                                 GetComponentNameFromType(type))
             ELSE IF type.hasMisspelt /\ ~c.misspell
             THEN ConsoleError([c EXCEPT !.misspell = TRUE], "misspell",
                    <<IF GetComponentNameFromType(type) # NULL
                      THEN ToStr(GetComponentNameFromType(type))
                      ELSE "Unknown">>, -1)
             ELSE c
       IN IF type.getDefaultProps = "unapproved"
          THEN ConsoleError(c1, "getDefaultProps", <<>>, -1)
          ELSE c1

\* mutant of ValidatePropTypes: the element loses its props when a declared contract is checked
ValidatePropTypes_DropsRejected(c, element) ==
  LET type == element.type
  IN IF type.kind \in {"null", "undefined"} \/ TypeOf(type) = "string" THEN c
     ELSE IF ~CanReadProperty(type) THEN Throw(c)
     ELSE IF type.kind = "client_reference" THEN c
     ELSE IF ~(TypeOf(type) = "function"
               \/ (TypeOf(type) = "object"
                   /\ type.kind \in {"forward_ref", "memo"}))
          THEN c
     ELSE
       LET c1 ==
             IF type.hasPropTypes
             THEN [CheckPropTypes(c, type.propTypes, element.props,
                                  GetComponentNameFromType(type))
                     EXCEPT !.element.props = <<>>]
             ELSE IF type.hasMisspelt /\ ~c.misspell
             THEN ConsoleError([c EXCEPT !.misspell = TRUE], "misspell",
                    <<IF GetComponentNameFromType(type) # NULL
                      THEN ToStr(GetComponentNameFromType(type))
                      ELSE "Unknown">>, -1)
             ELSE c
       IN IF type.getDefaultProps = "unapproved"
          THEN ConsoleError(c1, "getDefaultProps", <<>>, -1)
          ELSE c1

ValidatePropTypes(c, element) ==
  LET type == element.type
  IN IF type.kind \in {"null", "undefined"} \/ TypeOf(type) = "string" THEN c
     ELSE IF ~CanReadProperty(type) THEN Throw(c)
     ELSE IF type.kind = "client_reference" THEN c
     ELSE IF ~(TypeOf(type) = "function"
               \/ (TypeOf(type) = "object"
                   /\ type.kind \in {"forward_ref", "memo"}))
          THEN c
     ELSE
       LET c1 ==
             IF type.hasPropTypes
             THEN CheckPropTypes(c, type.propTypes, element.props,
                                 GetComponentNameFromType(type))
             ELSE IF type.hasMisspelt /\ ~c.misspell
             THEN ConsoleError([c EXCEPT !.misspell = TRUE], "misspell",
                    <<IF GetComponentNameFromType(type) # NULL
                      THEN ToStr(GetComponentNameFromType(type))
                      ELSE "Unknown">>, -1)
             ELSE c
       IN IF type.getDefaultProps = "unapproved"
          THEN ConsoleError(c1, "getDefaultProps", <<>>, -1)
          ELSE c1

\* mutant of FragmentKeysLoop: the loop goes on after the first invalid prop
RECURSIVE FragmentKeysLoop_NoBreak(_, _, _)
FragmentKeysLoop_NoBreak(c, fragment, keys) ==
  IF Len(keys) = 0 THEN c
  ELSE IF keys[1] # "children" /\ keys[1] # "key"
  THEN LET c1 == SetCurrentlyValidatingElement(c, fragment)
           c2 == ConsoleError(c1, "fragment-prop", <<keys[1]>>, 0)
       IN FragmentKeysLoop_NoBreak(SetCurrentlyValidatingElement(c2, NULL),
                                   fragment, Tail(keys))
  ELSE FragmentKeysLoop_NoBreak(c, fragment, Tail(keys))

\* the loop of validateFragmentProps: warn for the first invalid key and break
RECURSIVE FragmentKeysLoop(_, _, _)
FragmentKeysLoop(c, fragment, keys) ==
  IF Len(keys) = 0 THEN c
  ELSE IF keys[1] # "children" /\ keys[1] # "key"
  THEN LET c1 == SetCurrentlyValidatingElement(c, fragment)
           c2 == ConsoleError(c1, "fragment-prop", <<keys[1]>>, 0)
       IN SetCurrentlyValidatingElement(c2, NULL)
  ELSE FragmentKeysLoop(c, fragment, Tail(keys))

\* mutant of ValidateFragmentProps: the ref check is skipped once an invalid prop was reported
ValidateFragmentProps_RefAfterBreak(c, fragment) ==
  LET c1 == FragmentKeysLoop(c, fragment, ObjectKeys(fragment.props))
  IN IF fragment.ref # NULL /\ Len(c1.log) = Len(c.log)
     THEN LET c2 == SetCurrentlyValidatingElement(c1, fragment)
              c3 == ConsoleError(c2, "fragment-ref", <<>>, 0)
          IN SetCurrentlyValidatingElement(c3, NULL)
     ELSE c1

ValidateFragmentProps(c, fragment) ==
  LET c1 == FragmentKeysLoop(c, fragment, ObjectKeys(fragment.props))
  IN IF fragment.ref # NULL
     THEN LET c2 == SetCurrentlyValidatingElement(c1, fragment)
              c3 == ConsoleError(c2, "fragment-ref", <<>>, 0)
          IN SetCurrentlyValidatingElement(c3, NULL)
     ELSE c1

(***************************************************************************)
(* jsxWithValidation, lines 297-424, step by step.                         *)
(***************************************************************************)
\* lines 309-351: the warning for an invalid type (source is undefined in
\* both exported wrappers, so getSourceInfoErrorAddendum gives "")
WarnInvalidType(c, type) ==
  LET info0 == IF type.kind = "undefined"
                  \/ (TypeOf(type) = "object" /\ type.kind # "null"
                      /\ HasNoOwnKeys(type))
               THEN " You likely forgot to export your component from the file it's defined in, or you might have mixed up default and named imports."
               ELSE ""
      info1 == info0 \o GetDeclarationErrorAddendum
      isElementLiteral == type.kind # "undefined" /\ type.kind = "element"
      typeString ==
        IF type.kind = "null" THEN "null"
        ELSE IF type.kind = "array" THEN "array"
        ELSE IF isElementLiteral THEN "<Unknown />"
        ELSE TypeOf(type)
      info == IF type.kind \notin {"null", "array"} /\ isElementLiteral
              THEN " Did you accidentally export a JSX literal instead of a component?"
              ELSE info1
  IN ConsoleError(c, "type-invalid", <<typeString, info>>, -1)

\* lines 370-372: validateChildKeys on each static child
RECURSIVE StaticChildrenLoop(_, _, _)
StaticChildrenLoop(c, items, type) ==
  IF Len(items) = 0 THEN c
  ELSE StaticChildrenLoop(ValidateChildKeys(c, items[1], type), Tail(items), type)

\* lines 365-388 (Object.freeze(children) changes nothing that is read here)
\* mutant of ValidateChildren: the children are walked whether or not the type is valid
ValidateChildren_IgnoresValidType(c, validType, type, props, isStaticChildren) ==
  LET children == Get(props, "children")
  IN IF children # UNDEFINED
     THEN IF isStaticChildren
          THEN IF children.t = "array"
               THEN StaticChildrenLoop(c, children.items, type)
               ELSE ConsoleError(c, "static-children", <<>>, -1)
          ELSE ValidateChildKeys(c, children, type)
     ELSE c

ValidateChildren(c, validType, type, props, isStaticChildren) ==
  LET children == Get(props, "children")
  IN IF validType /\ children # UNDEFINED
     THEN IF isStaticChildren
          THEN IF children.t = "array"
               THEN StaticChildrenLoop(c, children.items, type)
               ELSE ConsoleError(c, "static-children", <<>>, -1)
          ELSE ValidateChildKeys(c, children, type)
     ELSE c

\* lines 391-396: the cache key of the key-spread warning
BeforeExample(keys) ==
  IF Len(keys) > 0
  THEN "{key: someKey, " \o Join(keys, ": ..., ") \o ": ...}"
  ELSE "{key: someKey}"

KeySpreadFingerprint(type, props) ==
  ToStr(GetComponentNameFromType(type))
    \o BeforeExample(FilterNotKey(ObjectKeys(props)))

AfterExample(keys) ==
  IF Len(keys) > 0 THEN "{" \o Join(keys, ": ..., ") \o ": ...}" ELSE "{}"

\* lines 390-414
WarnKeySpread(c, type, props) ==
  IF HasOwn(props, "key")
  THEN LET componentName == ToStr(GetComponentNameFromType(type))
           keys == FilterNotKey(ObjectKeys(props))
           fingerprint == KeySpreadFingerprint(type, props)
       IN IF fingerprint \notin c.spreadCache
          THEN [ConsoleError(c, "key-spread",
                  <<BeforeExample(keys), componentName, AfterExample(keys),
                    componentName>>, -1)
                  EXCEPT !.spreadCache = @ \cup {fingerprint}]
          ELSE c
  ELSE c

\* lines 416-420
ValidateProps(c, type) ==
  IF type.kind = "fragment"
  THEN ValidateFragmentProps(c, c.element)
  ELSE ValidatePropTypes(c, c.element)

\* lines 356-358 and 422: what the call hands back
Return(c, produced) ==
  [state |-> c, produced |-> produced,
   returned |-> IF c.threw THEN UNDEFINED ELSE c.element]

JsxWithValidation(type, props, key, isStaticChildren) ==
  LET validType == IsValidElementType(type)
      element == JsxDEV(type, props, key, ReactCurrentOwner)
      c1 == IF ~validType THEN WarnInvalidType(CallState, type) ELSE CallState
      c2 == [c1 EXCEPT !.element = element]
      c3 == ValidateChildren(c2, validType, type, props, isStaticChildren)
      c4 == WarnKeySpread(c3, type, props)
      c5 == ValidateProps(c4, type)
  IN IF element = NULL
     THEN Return([CallState EXCEPT !.element = element], element)
     ELSE Return(c5, element)

(***************************************************************************)
(* Actions.  A call of an exported wrapper is one step; retain says        *)
(* whether the program keeps the returned element to pass it as a child    *)
(* later.                                                                  *)
(***************************************************************************)
RECURSIVE KeyWarningsOf(_)
KeyWarningsOf(log) ==
  IF Len(log) = 0 THEN <<>>
  ELSE IF log[1].kind = "key"
       THEN <<<<log[1].args[1], log[1].elem>>>> \o KeyWarningsOf(Tail(log))
       ELSE KeyWarningsOf(Tail(log))

RECURSIVE AddFirsts(_, _)
AddFirsts(firsts, checked) ==
  IF Len(checked) = 0 THEN firsts
  ELSE IF \E i \in 1..Len(firsts) : firsts[i][1] = checked[1][1]
       THEN AddFirsts(firsts, Tail(checked))
       ELSE AddFirsts(Append(firsts, checked[1]), Tail(checked))

SpreadPair(type, props) ==
  <<GetComponentNameFromType(type), FilterNotKey(ObjectKeys(props))>>

JsxCall(type, props, key, isStaticChildren, retain) ==
  \E r \in {JsxWithValidation(type, props, key, isStaticChildren)} :
     /\ retain => (Len(heap) < MaxElems /\ r.returned.t = "element")
     /\ heap' = IF retain THEN Append(r.state.heap, r.returned) ELSE r.state.heap
     /\ ownerHasKeyUseWarning' = r.state.keyCache
     /\ didWarnAboutKeySpread' = r.state.spreadCache
     /\ propTypesMisspellWarningShown' = r.state.misspell
     /\ extraStackFrame' = r.state.frame
     /\ last' = [called |-> TRUE, type |-> type, props |-> props,
                 isStaticChildren |-> isStaticChildren,
                 produced |-> r.produced, returned |-> r.returned,
                 threw |-> r.state.threw, log |-> r.state.log,
                 checked |-> r.state.checked,
                 spreadFresh |-> SpreadPair(type, props) \notin spreadSeen]
     /\ keyWarnHistory' = keyWarnHistory \o KeyWarningsOf(r.state.log)
     /\ firstKeyless' = AddFirsts(firstKeyless, r.state.checked)
     /\ spreadSeen' = IF HasOwn(props, "key")
                      THEN spreadSeen \cup {SpreadPair(type, props)}
                      ELSE spreadSeen
     /\ UNCHANGED ReactCurrentOwner

\* lines 427-431
JsxWithValidationStatic(type, props, key, retain) ==
  JsxCall(type, props, key, TRUE, retain)

\* lines 433-437
JsxWithValidationDynamic(type, props, key, retain) ==
  JsxCall(type, props, key, FALSE, retain)

\* the renderer starts or finishes rendering a component
SetCurrentOwner(owner) ==
  /\ ReactCurrentOwner' = owner
  /\ UNCHANGED <<extraStackFrame, propTypesMisspellWarningShown,
                 ownerHasKeyUseWarning, didWarnAboutKeySpread, heap, last,
                 keyWarnHistory, firstKeyless, spreadSeen>>

NoCall ==
  [called |-> FALSE, type |-> HostDiv, props |-> <<>>,
   isStaticChildren |-> FALSE, produced |-> NULL, returned |-> NULL,
   threw |-> FALSE, log |-> <<>>, checked |-> <<>>, spreadFresh |-> FALSE]

Init ==
  /\ ReactCurrentOwner = NULL
  /\ extraStackFrame = NULL
  /\ propTypesMisspellWarningShown = FALSE
  /\ ownerHasKeyUseWarning = {}
  /\ didWarnAboutKeySpread = {}
  /\ heap = <<>>
  /\ last = NoCall
  /\ keyWarnHistory = <<>>
  /\ firstKeyless = <<>>
  /\ spreadSeen = {}

(***************************************************************************)
(* The inputs the calls are drawn from.                                    *)
(***************************************************************************)
OwnerApp == Plain("function", "App")

\* the elements held so far, as child values
ElemNodes == {ElemRef(i) : i \in 1..Len(heap)}

\* arrays of one or two held elements
ElemSeqs == {<<a>> : a \in ElemNodes} \cup {<<a, b>> : a, b \in ElemNodes}

Children(node) == <<[name |-> "children", value |-> node]>>

\* a leaf element is created outside of any render (no owner), with or
\* without a key, and kept
CreateLeaf(key) ==
  /\ ReactCurrentOwner = NULL
  /\ JsxWithValidationDynamic(HostDiv, <<>>, key, TRUE)

(***************************************************************************)
(* Spec: the key-presence checker across calls and parent contexts.        *)
(***************************************************************************)
Next ==
  \/ \E owner \in {NULL, OwnerApp} : SetCurrentOwner(owner)
  \/ \E key \in {UNDEFINED, Str("k")} : CreateLeaf(key)
  \/ \E node \in ElemNodes \cup {Arr(s) : s \in ElemSeqs} :
       JsxWithValidationDynamic(HostDiv, Children(node), UNDEFINED, FALSE)
  \/ \E a \in ElemNodes :
       JsxWithValidationDynamic(FnAnon, Children(Arr(<<a>>)), UNDEFINED, FALSE)
  \/ \E a \in ElemNodes :
       JsxWithValidationStatic(HostDiv, Children(Arr(<<a, Arr(<<a>>)>>)),
                               UNDEFINED, FALSE)

Spec == Init /\ [][Next]_vars

\* the log entries of one kind
LogOfKind(log, kind) == SelectSeq(log, LAMBDA e : e.kind = kind)

\* C1: for every parent-context fingerprint, the missing-key warnings emitted
\* over all calls so far are exactly one, for the first keyless, not yet
\* validated element that was checked under that fingerprint; every later
\* such element is silent.
C1_OneKeyWarningPerContext == keyWarnHistory = firstKeyless

\* C1 witness: the last call checked a keyless, unvalidated element and was
\* silent, because another element had warned under the same fingerprint.
C1_Witness ==
  /\ last.checked # <<>>
  /\ LogOfKind(last.log, "key") = <<>>
  /\ \E i \in 1..Len(keyWarnHistory) :
       /\ keyWarnHistory[i][1] = last.checked[1][1]
       /\ keyWarnHistory[i][2] # last.checked[1][2]

\* C10: an element that is marked validated stays marked, and no later call
\* emits a missing-key warning (or adds the cache entry that goes with it)
\* for that element.
C10_ValidatedIsPermanent ==
  [][\A i \in 1..Len(heap) :
       heap[i].validated =>
         /\ Len(heap') >= i
         /\ heap'[i].validated
         /\ \A j \in (Len(keyWarnHistory) + 1)..Len(keyWarnHistory') :
              keyWarnHistory'[j][2] # i]_vars

\* C10 witness: a keyless element that was validated earlier has just been
\* passed in a children array under a parent context that has never warned,
\* and no warning came.
C10_Witness ==
  /\ last.called
  /\ IsValidElementType(last.type)
  /\ ~last.isStaticChildren
  /\ Get(last.props, "children").t = "array"
  /\ \E k \in 1..Len(Get(last.props, "children").items) :
       LET e == Get(last.props, "children").items[k]
       IN e.t = "elem" /\ heap[e.id].key = NULL /\ heap[e.id].validated
  /\ GetCurrentComponentErrorInfo(last.type) \notin ownerHasKeyUseWarning
  /\ last.log = <<>>

(***************************************************************************)
(* SpecChildren: the shapes props.children can take, with a valid and      *)
(* with an invalid type.                                                   *)
(***************************************************************************)
DynamicChildren ==
  ElemNodes \cup {Arr(s) : s \in ElemSeqs}
    \cup {Iter(<<p[1], p[2]>>, FALSE) :
             p \in {q \in ElemNodes \X ElemNodes : q[1].id <= q[2].id}}
    \cup {Iter(<<a>>, TRUE) : a \in ElemNodes}
    \cup {Arr(<<a, Str("text")>>) : a \in ElemNodes}
    \cup {Str("text"), ClientRefObj}

StaticChildren ==
  {Arr(<<a, Arr(<<b>>)>>) : a, b \in ElemNodes} \cup {Str("text")}

NextChildren ==
  \/ \E key \in {UNDEFINED, Str("k")} : CreateLeaf(key)
  \/ \E type \in {HostDiv, TNull}, node \in DynamicChildren :
       JsxWithValidationDynamic(type, Children(node), UNDEFINED, FALSE)
  \/ \E type \in {HostDiv, TNumber}, node \in StaticChildren :
       JsxWithValidationStatic(type, Children(node), UNDEFINED, FALSE)

SpecChildren == Init /\ [][NextChildren]_vars

\* the nodes the last call passed to validateChildKeys
RECURSIVE SeqToSet(_)
SeqToSet(q) == IF Len(q) = 0 THEN {} ELSE {q[1]} \cup SeqToSet(Tail(q))

CheckedNodes ==
  LET children == Get(last.props, "children")
  IN IF ~last.called \/ ~IsValidElementType(last.type) THEN {}
     ELSE IF ~last.isStaticChildren THEN {children}
     ELSE IF children.t = "array" THEN SeqToSet(children.items)
     ELSE {}

\* a node the key-presence checker unwraps: a single element, an array, or
\* an iterable whose iterator is not its entries method
IsUnwrapped(node) ==
  node.t \in {"elem", "array"} \/ (node.t = "iterable" /\ ~node.entries)

\* the elements such a node contains
ElementsIn(node) ==
  IF node.t = "elem" THEN {node.id}
  ELSE {node.items[k].id : k \in {k \in 1..Len(node.items) : node.items[k].t = "elem"}}

\* C7 as stated: after validateChildKeys returns for a single element, an
\* array or a non-entries iterable, every element in it is marked validated,
\* keyed or not.
C7_AllContainedValidated ==
  \A node \in CheckedNodes :
    IsUnwrapped(node) => \A i \in ElementsIn(node) : heap[i].validated

\* C7 amended: after validateChildKeys returns for such a node, every element
\* in it that has no explicit key is marked validated, and so is a node that
\* is itself an element, keyed or not.
C7_KeylessContainedValidated ==
  \A node \in CheckedNodes :
    IsUnwrapped(node) =>
      \A i \in ElementsIn(node) :
        (node.t = "elem" \/ heap[i].key = NULL) => heap[i].validated

\* C7 witness: an array or iterable with a keyless element, and a keyed
\* single element, have each been checked.
C7_Witness ==
  /\ \E node \in CheckedNodes :
       /\ node.t \in {"array", "iterable"} /\ IsUnwrapped(node)
       /\ \E i \in ElementsIn(node) : heap[i].key = NULL /\ heap[i].validated
  /\ \E node \in CheckedNodes :
       node.t = "elem" /\ heap[node.id].key # NULL /\ heap[node.id].validated

\* C9: a call whose type is invalid marks no held element validated, leaves
\* the missing-key cache as it was, and emits neither a missing-key warning
\* nor the static-children warning.
C9_InvalidTypeSkipsKeyCheck ==
  [][~IsValidElementType(last'.type) =>
       /\ ownerHasKeyUseWarning' = ownerHasKeyUseWarning
       /\ \A i \in 1..Len(heap) : heap'[i] = heap[i]
       /\ LogOfKind(last'.log, "key") = <<>>
       /\ LogOfKind(last'.log, "static-children") = <<>>]_vars

\* C9 witness: invalid-type calls have been given an array with a keyless,
\* unvalidated element (dynamic) and a non-array (static).
C9_Witness ==
  /\ last.called
  /\ ~IsValidElementType(last.type)
  /\ LET children == Get(last.props, "children")
     IN \/ /\ ~last.isStaticChildren
           /\ children.t = "array"
           /\ \E i \in ElementsIn(children) :
                heap[i].key = NULL /\ ~heap[i].validated
        \/ /\ last.isStaticChildren
           /\ children.t = "str"

(***************************************************************************)
(* SpecFragment: fragments with props, refs and keyless children.          *)
(***************************************************************************)
RefObject == [t |-> "object"]

\* a props object with the given names in the given order
PropValue(name, children) ==
  IF name = "children" THEN children
  ELSE IF name = "ref" THEN RefObject
  ELSE Str("v")

PropsOf(names, children) ==
  [i \in 1..Len(names) |->
     [name |-> names[i], value |-> PropValue(names[i], children)]]

FragmentPropOrders ==
  {<<>>, <<"a">>, <<"ref">>, <<"children">>,
   <<"children", "a">>, <<"a", "b">>, <<"children", "b", "a">>,
   <<"ref", "a">>, <<"children", "ref">>, <<"key", "children">>,
   <<"key", "children", "ref", "b", "a">>}

NextFragment ==
  \/ CreateLeaf(UNDEFINED)
  \/ \E names \in FragmentPropOrders,
          node \in {Str("text")} \cup {Arr(<<a>>) : a \in ElemNodes} :
       JsxWithValidationDynamic(Fragment, PropsOf(names, node), UNDEFINED, FALSE)
  \/ \E names \in {<<"children">>, <<"children", "ref", "a">>},
          node \in {Arr(<<Arr(<<a>>)>>) : a \in ElemNodes} :
       JsxWithValidationStatic(Fragment, PropsOf(names, node), UNDEFINED, FALSE)

SpecFragment == Init /\ [][NextFragment]_vars

LastIsFragment == last.called /\ last.type.kind = "fragment"

\* C5: every call for a fragment whose ref is set emits the ref warning,
\* whether or not an invalid-prop warning was emitted in the same call and
\* whatever was emitted by earlier calls.
C5_FragmentRefAlwaysWarns ==
  (LastIsFragment /\ last.produced.ref # NULL) =>
    Len(LogOfKind(last.log, "fragment-ref")) = 1

\* C5 witness: a fragment with a ref and an invalid prop got both warnings.
C5_Witness ==
  /\ LastIsFragment
  /\ last.produced.ref # NULL
  /\ LogOfKind(last.log, "fragment-prop") # <<>>
  /\ LogOfKind(last.log, "fragment-ref") # <<>>

\* the positions of the props of the element that a fragment may not have
OffendingProps(props) ==
  {i \in 1..Len(props) : props[i].name \notin {"key", "children"}}

\* C6: the call for a fragment emits an invalid-prop warning exactly when the
\* element's props hold a name other than key and children, emits one at
\* most, and names the first such prop in enumeration order.
C6_FragmentInvalidPropWarning ==
  LastIsFragment =>
    LET props == last.produced.props
        bad == OffendingProps(props)
        warned == LogOfKind(last.log, "fragment-prop")
    IN IF bad = {} THEN warned = <<>>
       ELSE /\ Len(warned) = 1
            /\ warned[1].args =
                 <<props[CHOOSE i \in bad : \A j \in bad : i <= j].name>>

\* C6 witness: a fragment with children first and then two invalid props
\* got one warning.
C6_Witness ==
  /\ LastIsFragment
  /\ Cardinality(OffendingProps(last.produced.props)) >= 2
  /\ 1 \notin OffendingProps(last.produced.props)
  /\ Len(LogOfKind(last.log, "fragment-prop")) = 1

\* the element a log entry is about
ElementOf(entry) == IF entry.elem = 0 THEN last.produced ELSE heap[entry.elem]

\* C8: each warning of the fragment validator and of the missing-key check is
\* emitted with the debug frame set for the element being validated, and the
\* frame is null after every call.
C8_FramePointerSetAndCleared ==
  /\ extraStackFrame = NULL
  /\ \A k \in 1..Len(last.log) :
       last.log[k].kind \in {"key", "fragment-prop", "fragment-ref"} =>
         last.log[k].frame = StackFrameOf(ElementOf(last.log[k]))

\* C8 witness: one call emitted a missing-key warning and both fragment
\* warnings.
C8_Witness ==
  /\ LogOfKind(last.log, "key") # <<>>
  /\ LogOfKind(last.log, "fragment-prop") # <<>>
  /\ LogOfKind(last.log, "fragment-ref") # <<>>
  /\ extraStackFrame = NULL

(***************************************************************************)
(* SpecProps: every kind of type, valid and invalid, with props that a     *)
(* declared contract accepts or rejects.                                   *)
(***************************************************************************)
AllTypes ==
  {HostDiv, FnA, FnAnon, FnWithPropTypes, FnMisspelt, FnLegacy,
   FwdRefWithPropTypes, MemoWithPropTypes, Fragment, ClientRefType,
   TNull, TUndefined, TEmptyObject, TArray, TElement, TNumber, TObject}

Prop(name, value) == [name |-> name, value |-> value]

PropsConfigs ==
  {<<>>,
   <<Prop("a", Str("v"))>>,
   <<Prop("a", Num(1))>>,
   <<Prop("a", Num(1)), Prop("b", Num(2))>>,
   <<Prop("b", Str("v")), Prop("children", Str("text"))>>}

NextProps ==
  \/ \E owner \in {NULL, OwnerApp} : SetCurrentOwner(owner)
  \/ \E type \in AllTypes, props \in PropsConfigs :
       JsxWithValidationDynamic(type, props, UNDEFINED, FALSE)
  \/ \E type \in {TNull, TUndefined, TNumber, FnWithPropTypes} :
       JsxWithValidationDynamic(type, <<Prop("key", Str("k")), Prop("a", Num(1))>>,
                                UNDEFINED, FALSE)
  \/ \E type \in AllTypes,
          props \in {<<>>, <<Prop("b", Num(2)), Prop("children", Str("text"))>>} :
       JsxWithValidationStatic(type, props, Num(7), FALSE)

SpecProps == Init /\ [][NextProps]_vars

\* C3: a call with a type that isValidElementType rejects emits the
\* type-is-invalid warning, delegates to jsxDEV, runs the remaining steps
\* (the key-spread check) without an exception, and returns the element that
\* jsxDEV produced.
C3_InvalidTypeStillReturns ==
  (last.called /\ ~IsValidElementType(last.type)) =>
    /\ Len(LogOfKind(last.log, "type-invalid")) = 1
    /\ last.produced.t = "element"
    /\ last.produced.type = last.type
    /\ ~last.threw
    /\ last.returned = last.produced
    /\ HasOwn(last.props, "key") =>
         KeySpreadFingerprint(last.type, last.props) \in didWarnAboutKeySpread

\* C3 witness: calls with null and with undefined as the type have returned
\* (the two types whose properties cannot be read).
C3_Witness ==
  /\ last.called
  /\ last.type.kind \in {"null", "undefined"}
  /\ HasOwn(last.props, "key")
  /\ last.returned.t = "element"

\* the declared props of the last call's type that its contract rejects
RejectedProps ==
  IF last.called /\ last.type.kind \in {"function", "forward_ref", "memo"}
       /\ last.type.hasPropTypes
  THEN {k \in 1..Len(last.type.propTypes) :
          PropTypeRejects(Get(last.props, last.type.propTypes[k]))}
  ELSE {}

\* C4: whatever the validators find, the call returns the element jsxDEV
\* produced, unchanged; when the type's declared contract rejects a prop
\* value, that is reported as a warning and the returned props still hold
\* the rejected value.
C4_ElementReturnedIntact ==
  last.called =>
    /\ ~last.threw
    /\ last.returned = last.produced
    /\ \A k \in RejectedProps :
         LET name == last.type.propTypes[k]
         IN /\ Get(last.returned.props, name) = Get(last.props, name)
            /\ \E e \in 1..Len(last.log) :
                 last.log[e].kind = "prop-types" /\ last.log[e].args[1] = name

\* C4 witness: a type with a declared contract was given a rejected value.
C4_Witness ==
  /\ RejectedProps # {}
  /\ LogOfKind(last.log, "prop-types") # <<>>
  /\ last.returned.t = "element"

(***************************************************************************)
(* SpecSpread: props objects that carry an own "key".                      *)
(***************************************************************************)
SpreadPropOrders ==
  {<<"key">>, <<"key", "a", "b">>, <<"a", "key", "b">>,
   <<"key", "a: ..., b">>, <<"a">>}

NextSpread ==
  \/ \E type \in {FnA, FnAnon, FnNull}, names \in SpreadPropOrders :
       JsxWithValidationDynamic(type, PropsOf(names, UNDEFINED), UNDEFINED, FALSE)
  \/ \E type \in {FnA}, names \in SpreadPropOrders :
       JsxWithValidationStatic(type, PropsOf(names, UNDEFINED), UNDEFINED, FALSE)

SpecSpread == Init /\ [][NextSpread]_vars

\* C2: a call whose props have an own "key" emits the key-spread warning
\* exactly when its (component name, remaining prop names) pair has not been
\* seen in an earlier such call.
C2_KeySpreadOncePerPair ==
  (last.called /\ HasOwn(last.props, "key")) =>
    ((LogOfKind(last.log, "key-spread") # <<>>) <=> last.spreadFresh)

====
